---- MODULE Spec2Model ----
(***************************************************************************)
(* Student Database Management System (src/main.py).                       *)
(*                                                                         *)
(* Text is modelled as a sequence of one-character strings, so that        *)
(* trimming, the e-mail pattern and SQL LIKE are computed character by     *)
(* character.  A GPA is an integer number of tenths (3.0 is 30).           *)
(***************************************************************************)
EXTENDS Integers, Sequences, FiniteSets

VARIABLES
    students,   \* table students: id -> [name, age, major, gpa, email]
    seq,        \* sqlite_sequence row of the table: largest id ever assigned
    created,    \* history: every id an INSERT has assigned so far
    op,         \* the page handler that ran last
    arg,        \* the inputs it was given
    out,        \* what it showed: status, messages, rows, assigned id
    ml          \* what the ML page computed and showed

vars == <<students, seq, created, op, arg, out, ml>>

(***************************************************************************)
(* Bounds of the model.                                                    *)
(***************************************************************************)
MaxId == 3
MaxEmailLen == 6
AgeMargin == 1
GpaMargin == 1
MaxMLRecords == 10

(***************************************************************************)
(* Characters.                                                             *)
(***************************************************************************)
LowerSeq ==
    << "a","b","c","d","e","f","g","h","i","j","k","l","m",
       "n","o","p","q","r","s","t","u","v","w","x","y","z" >>

UpperSeq ==
    << "A","B","C","D","E","F","G","H","I","J","K","L","M",
       "N","O","P","Q","R","S","T","U","V","W","X","Y","Z" >>

LowerLetters == { LowerSeq[i] : i \in 1..Len(LowerSeq) }
UpperLetters == { UpperSeq[i] : i \in 1..Len(UpperSeq) }
Letters == LowerLetters \cup UpperLetters
Digits == { "0","1","2","3","4","5","6","7","8","9" }
Whitespace == { " ", "\t", "\n", "\r" }

\* ASCII case folding, as SQLite's built-in LIKE does it.
Lower(ch) ==
    IF ch \in UpperLetters
    THEN LowerSeq[CHOOSE i \in 1..Len(UpperSeq) : UpperSeq[i] = ch]
    ELSE ch

\* str.strip(): leading and trailing whitespace removed.
RECURSIVE lstrip(_)
lstrip(s) ==
    IF s # <<>> /\ Head(s) \in Whitespace THEN lstrip(Tail(s)) ELSE s

RECURSIVE rstrip(_)
rstrip(s) ==
    IF s # <<>> /\ s[Len(s)] \in Whitespace
    THEN rstrip(SubSeq(s, 1, Len(s) - 1))
    ELSE s

strip(s) == rstrip(lstrip(s))

AllIn(s, lo, hi, class) == \A k \in lo..hi : s[k] \in class

(***************************************************************************)
(* Validation.                                                             *)
(***************************************************************************)
\* [a-zA-Z0-9._%+-]
LocalClass == Letters \cup Digits \cup { ".", "_", "%", "+", "-" }

\* [a-zA-z)-9.-] as written: the range A-z also covers [ \ ] ^ _ (and the
\* grave accent, left out here), the range )-9 covers ) * + , - . / and the
\* digits.
DomainClass ==
    Letters \cup { "[", "\\", "]", "^", "_" }
            \cup { ")", "*", "+", ",", "-", ".", "/" } \cup Digits

\* [a-zA-Z]{2,}
TldClass == Letters

\* ^local+@domain+\.tld{2,} matched against the whole of s.
PatternMatches(s, local, domain) ==
    \E i \in 2..Len(s) : \E j \in (i + 2)..(Len(s) - 2) :
        /\ s[i] = "@"
        /\ s[j] = "."
        /\ AllIn(s, 1, i - 1, local)
        /\ AllIn(s, i + 1, j - 1, domain)
        /\ AllIn(s, j + 1, Len(s), TldClass)

\* re.match(pattern, email): $ also matches just before a final newline.
validate_email(email) ==
    \/ PatternMatches(email, LocalClass, DomainClass)
    \/ /\ email # <<>>
       /\ email[Len(email)] = "\n"
       /\ PatternMatches(SubSeq(email, 1, Len(email) - 1), LocalClass, DomainClass)

MinAge == 18
MaxAge == 100
MinGpa == 0
MaxGpa == 40

NameError == "Name must be at least 2 characters."
AgeError == "Age must be between 18 and 100."
GpaError == "GPA must be between 0.0 and 4.0."
EmailError == "Invalid email format."

NameRule(name) == ~(name = <<>> \/ Len(strip(name)) < 2)
AgeRule(age) == MinAge <= age /\ age <= MaxAge
GpaRule(gpa) == MinGpa <= gpa /\ gpa <= MaxGpa

\* Variant of validate_inputs: the rules chained with elif, so that only the
\* first violated rule is reported.
validate_inputs_first_only(name, age, gpa, email) ==
    IF ~NameRule(name) THEN <<NameError>>
    ELSE IF ~AgeRule(age) THEN <<AgeError>>
    ELSE IF ~GpaRule(gpa) THEN <<GpaError>>
    ELSE IF ~validate_email(email) THEN <<EmailError>>
    ELSE <<>>

validate_inputs(name, age, gpa, email) ==
    (IF ~NameRule(name) THEN <<NameError>> ELSE <<>>)
    \o (IF ~AgeRule(age) THEN <<AgeError>> ELSE <<>>)
    \o (IF ~GpaRule(gpa) THEN <<GpaError>> ELSE <<>>)
    \o (IF ~validate_email(email) THEN <<EmailError>> ELSE <<>>)

(***************************************************************************)
(* The table and its queries.                                              *)
(***************************************************************************)
Ids == DOMAIN students

Max(a, b) == IF a >= b THEN a ELSE b

MaxRowid(tbl) ==
    IF DOMAIN tbl = {} THEN 0
    ELSE CHOOSE m \in DOMAIN tbl : \A k \in DOMAIN tbl : k <= m

\* Variant of NextId: the column declared without AUTOINCREMENT, where the
\* next id is one more than the largest id now in the table.
NextIdWithoutAutoincrement(tbl, sq) == MaxRowid(tbl) + 1

\* INTEGER PRIMARY KEY AUTOINCREMENT: one more than the largest id the table
\* has ever held, which sqlite_sequence remembers across deletes.
NextId(tbl, sq) == Max(sq, MaxRowid(tbl)) + 1

RECURSIVE SortedIds(_)
SortedIds(S) ==
    IF S = {} THEN <<>>
    ELSE LET m == CHOOSE x \in S : \A y \in S : x <= y
         IN  <<m>> \o SortedIds(S \ {m})

Row(tbl, id) ==
    [ id |-> id, name |-> tbl[id].name, age |-> tbl[id].age,
      major |-> tbl[id].major, gpa |-> tbl[id].gpa, email |-> tbl[id].email ]

\* The rows of the given ids, in rowid order.
RowsInOrder(tbl, ids) == [ k \in 1..Len(ids) |-> Row(tbl, ids[k]) ]

SelectRows(tbl, ids) == RowsInOrder(tbl, SortedIds(ids))

\* SELECT * FROM students
view_students(tbl) == SelectRows(tbl, DOMAIN tbl)

\* INSERT INTO students (name, age, major, gpa, email) VALUES (?, ?, ?, ?, ?)
add_student(tbl, sq, name, age, major, gpa, email) ==
    LET id == NextId(tbl, sq)
    IN  [ x \in DOMAIN tbl \cup {id} |->
            IF x = id
            THEN [ name |-> name, age |-> age, major |-> major,
                   gpa |-> gpa, email |-> email ]
            ELSE tbl[x] ]

\* Variant of update_student: the statement without its WHERE clause.
update_student_every_row(tbl, student_id, name, age, major, gpa, email) ==
    [ x \in DOMAIN tbl |->
        [ name |-> name, age |-> age, major |-> major,
          gpa |-> gpa, email |-> email ] ]

\* UPDATE students SET name=?, age=?, major=?, gpa=?, email=? WHERE id=?
update_student(tbl, student_id, name, age, major, gpa, email) ==
    [ x \in DOMAIN tbl |->
        IF x = student_id
        THEN [ name |-> name, age |-> age, major |-> major,
               gpa |-> gpa, email |-> email ]
        ELSE tbl[x] ]

\* DELETE FROM students WHERE id=?
delete_student(tbl, student_id) ==
    [ x \in DOMAIN tbl \ {student_id} |-> tbl[x] ]

\* SQL LIKE: % matches any run of characters, _ any one character, and any
\* other character matches itself, ASCII letters without regard to case.
RECURSIVE Like(_, _)
Like(pat, txt) ==
    IF pat = <<>> THEN txt = <<>>
    ELSE IF Head(pat) = "%"
         THEN Like(Tail(pat), txt) \/ (txt # <<>> /\ Like(pat, Tail(txt)))
         ELSE /\ txt # <<>>
              /\ (Head(pat) = "_" \/ Lower(Head(pat)) = Lower(Head(txt)))
              /\ Like(Tail(pat), Tail(txt))

\* SELECT * FROM students WHERE name LIKE ? OR major LIKE ?
\* with both parameters '%' + query + '%'.
LikeParameter(query) == <<"%">> \o query \o <<"%">>

search_students(tbl, query) ==
    SelectRows(tbl, { id \in DOMAIN tbl :
                        \/ Like(LikeParameter(query), tbl[id].name)
                        \/ Like(LikeParameter(query), tbl[id].major) })

(***************************************************************************)
(* What a page handler leaves behind for the rest of the model to read.    *)
(***************************************************************************)
NoArg ==
    [ id |-> 0, name |-> <<>>, age |-> 0, major |-> <<>>, gpa |-> 0,
      email |-> <<>>, query |-> <<>> ]

FieldsArg(id, name, age, major, gpa, email) ==
    [ id |-> id, name |-> name, age |-> age, major |-> major, gpa |-> gpa,
      email |-> email, query |-> <<>> ]

Shown(status, errors, id, rows) ==
    [ status |-> status, errors |-> errors, id |-> id, rows |-> rows ]

NoOut == Shown("none", <<>>, 0, <<>>)

NoAccuracy == [ none |-> TRUE, num |-> 0, den |-> 1 ]

NoImportance == [ none |-> TRUE, weights |-> <<>> ]

\* train_and_predict's return for fewer than MinRecords rows: df, None, None.
NoPrediction(n) ==
    [ n |-> n, train |-> {}, test |-> {}, accuracy |-> NoAccuracy,
      importance |-> NoImportance, predicted |-> <<>>, splits |-> 0 ]

MLShown(shown, r) ==
    [ shown |-> shown, n |-> r.n, train |-> r.train, test |-> r.test,
      accuracy |-> r.accuracy, importance |-> r.importance,
      predicted |-> r.predicted, splits |-> r.splits ]

NoML == MLShown("none", NoPrediction(0))

(***************************************************************************)
(* The pages.                                                              *)
(***************************************************************************)
\* Variant of AddStudentPage: the record is inserted whatever validation says.
AddStudentPageUnvalidated(name, age, major, gpa, email) ==
    LET errors == validate_inputs(name, age, gpa, email)
        id == NextId(students, seq)
    IN  /\ op' = "add"
        /\ arg' = FieldsArg(0, name, age, major, gpa, email)
        /\ ml' = NoML
        /\ id <= MaxId
        /\ students' = add_student(students, seq, name, age, major, gpa, email)
        /\ seq' = id
        /\ created' = created \cup {id}
        /\ out' = IF errors # <<>>
                  THEN Shown("validation_error", errors, id, <<>>)
                  ELSE Shown("success", <<>>, id, <<>>)

\* choice == 'Add Student', form submitted.
AddStudentPage(name, age, major, gpa, email) ==
    LET errors == validate_inputs(name, age, gpa, email)
        id == NextId(students, seq)
    IN  /\ op' = "add"
        /\ arg' = FieldsArg(0, name, age, major, gpa, email)
        /\ ml' = NoML
        /\ IF errors # <<>>
           THEN /\ out' = Shown("validation_error", errors, 0, <<>>)
                /\ UNCHANGED <<students, seq, created>>
           ELSE /\ id <= MaxId
                /\ students' = add_student(students, seq, name, age, major, gpa, email)
                /\ seq' = id
                /\ created' = created \cup {id}
                /\ out' = Shown("success", <<>>, id, <<>>)

\* Variant of UpdateStudentPage: the row is written before the inputs are
\* validated.
UpdateStudentPageWriteFirst(student_id, name, age, major, gpa, email) ==
    LET df == view_students(students)
        errors == validate_inputs(name, age, gpa, email)
    IN  /\ op' = "update"
        /\ arg' = FieldsArg(student_id, name, age, major, gpa, email)
        /\ ml' = NoML
        /\ UNCHANGED <<seq, created>>
        /\ IF \E k \in 1..Len(df) : df[k].id = student_id
           THEN /\ students' = update_student(students, student_id, name,
                                              age, major, gpa, email)
                /\ out' = IF errors # <<>>
                          THEN Shown("validation_error", errors, 0, <<>>)
                          ELSE Shown("success", <<>>, student_id, <<>>)
           ELSE /\ out' = Shown("not_found", <<>>, 0, <<>>)
                /\ UNCHANGED students

\* choice == 'Update Student', with the form (when it is shown) submitted.
UpdateStudentPage(student_id, name, age, major, gpa, email) ==
    LET df == view_students(students)
        errors == validate_inputs(name, age, gpa, email)
    IN  /\ op' = "update"
        /\ arg' = FieldsArg(student_id, name, age, major, gpa, email)
        /\ ml' = NoML
        /\ UNCHANGED <<seq, created>>
        /\ IF \E k \in 1..Len(df) : df[k].id = student_id
           THEN IF errors # <<>>
                THEN /\ out' = Shown("validation_error", errors, 0, <<>>)
                     /\ UNCHANGED students
                ELSE /\ students' = update_student(students, student_id, name,
                                                   age, major, gpa, email)
                     /\ out' = Shown("success", <<>>, student_id, <<>>)
           ELSE /\ out' = Shown("not_found", <<>>, 0, <<>>)
                /\ UNCHANGED students

\* Variant of DeleteStudentPage: delete_student called without looking the id
\* up first.
DeleteStudentPageUnchecked(student_id) ==
    /\ op' = "delete"
    /\ arg' = [NoArg EXCEPT !.id = student_id]
    /\ ml' = NoML
    /\ UNCHANGED <<seq, created>>
    /\ students' = delete_student(students, student_id)
    /\ out' = Shown("success", <<>>, student_id, <<>>)

\* choice == 'Delete Student', button pressed.
DeleteStudentPage(student_id) ==
    LET df == view_students(students)
    IN  /\ op' = "delete"
        /\ arg' = [NoArg EXCEPT !.id = student_id]
        /\ ml' = NoML
        /\ UNCHANGED <<seq, created>>
        /\ IF \E k \in 1..Len(df) : df[k].id = student_id
           THEN /\ students' = delete_student(students, student_id)
                /\ out' = Shown("success", <<>>, student_id, <<>>)
           ELSE /\ out' = Shown("not_found", <<>>, 0, <<>>)
                /\ UNCHANGED students

\* choice == 'Search Students': nothing is looked up for an empty query.
SearchStudentsPage(query) ==
    /\ op' = "search"
    /\ arg' = [NoArg EXCEPT !.query = query]
    /\ ml' = NoML
    /\ UNCHANGED <<students, seq, created>>
    /\ IF query # <<>>
       THEN LET df == search_students(students, query)
            IN  out' = Shown(IF df # <<>> THEN "rows" ELSE "no_results",
                             <<>>, 0, df)
       ELSE out' = Shown("idle", <<>>, 0, <<>>)

\* choice == 'View Students'
ViewStudentsPage ==
    LET df == view_students(students)
    IN  /\ op' = "view"
        /\ arg' = NoArg
        /\ ml' = NoML
        /\ UNCHANGED <<students, seq, created>>
        /\ out' = Shown(IF df # <<>> THEN "rows" ELSE "no_students", <<>>, 0, df)

(***************************************************************************)
(* Inputs of the record pages.  The number inputs of the forms keep age    *)
(* within [18, 100] and GPA within [0.0, 4.0]; the text inputs are free.   *)
(***************************************************************************)
FormNames == { <<"A","l">>, <<"B","o">>, <<" ","A"," ">> }
FormAges == { MinAge }
FormMajors == { <<"C","S">> }
FormGpas == { MaxGpa }
FormEmails == { <<"a","@","b",".","c","c">>, <<"a","@","b">> }
FormIds == 1..(MaxId + 1)
Queries ==
    { <<>>, <<"a">>, <<"A","L">>, <<"l","b">>, <<"c","s">>, <<"_">>,
      <<"%">>, <<"A","_">> }

Init ==
    /\ students = <<>>
    /\ seq = 0
    /\ created = {}
    /\ op = "start"
    /\ arg = NoArg
    /\ out = NoOut
    /\ ml = NoML

Next ==
    \/ \E name \in FormNames, age \in FormAges, major \in FormMajors,
          gpa \in FormGpas, email \in FormEmails :
            AddStudentPage(name, age, major, gpa, email)
    \/ \E id \in FormIds, name \in FormNames, age \in FormAges,
          major \in FormMajors, gpa \in FormGpas, email \in FormEmails :
            UpdateStudentPage(id, name, age, major, gpa, email)
    \/ \E id \in FormIds : DeleteStudentPage(id)
    \/ \E query \in Queries : SearchStudentsPage(query)
    \/ ViewStudentsPage

Spec == Init /\ [][Next]_vars

(***************************************************************************)
(* validate_inputs called on its own, on arguments that no form has        *)
(* narrowed: ages and GPAs on both sides of each bound, names with and     *)
(* without surrounding whitespace, and every e-mail of up to MaxEmailLen   *)
(* characters over EmailAlphabet.                                          *)
(***************************************************************************)
ValidateCall ==
    /\ op = "input"
    /\ op' = "validate"
    /\ out' = Shown("validated",
                    validate_inputs(arg.name, arg.age, arg.gpa, arg.email),
                    0, <<>>)
    /\ UNCHANGED <<students, seq, created, arg, ml>>

SomeEmail == <<"a","@","b",".","c","c">>

ArgNames ==
    { <<>>, <<" ">>, <<" "," "," ">>, <<"A">>, <<" ","A"," ">>, <<"\t","A","\n">>,
      <<"A","l">>, <<" ","A","l">>, <<"A"," ">>, <<"A"," ","B">>, <<"A","l"," ","B">> }
ArgAges ==
    ((MinAge - AgeMargin)..(MinAge + AgeMargin))
        \cup ((MaxAge - AgeMargin)..(MaxAge + AgeMargin))
ArgGpas ==
    ((MinGpa - GpaMargin)..(MinGpa + GpaMargin))
        \cup ((MaxGpa - GpaMargin)..(MaxGpa + GpaMargin))
ArgEmails == { SomeEmail, <<"a","@","b">>, <<"a","@","_",".","c","c">> }

EmailAlphabet == { "a", "@", ".", "_" }
EmailStrings == UNION { [1..k -> EmailAlphabet] : k \in 0..MaxEmailLen }

InitValidate ==
    /\ students = <<>>
    /\ seq = 0
    /\ created = {}
    /\ op = "input"
    /\ out = NoOut
    /\ ml = NoML
    /\ \/ \E name \in ArgNames, age \in ArgAges, gpa \in ArgGpas,
             email \in ArgEmails :
               arg = FieldsArg(0, name, age, <<>>, gpa, email)
       \/ \E email \in EmailStrings :
               arg = FieldsArg(0, <<"A","l">>, MinAge, <<>>, MaxGpa, email)

NextValidate == ValidateCall

SpecValidate == InitValidate /\ [][NextValidate]_vars

(***************************************************************************)
(* ML: the performance label, the 80/20 split, the decision tree.          *)
(*                                                                         *)
(* A tree is <<"leaf", class>> or <<"node", feature, t, left, right, gain>>*)
(* where a row goes left when twice its feature value is at most t (t is   *)
(* twice the threshold, the midpoint of two neighbouring values), and gain *)
(* is the node's weighted impurity decrease times GiniScale.               *)
(***************************************************************************)
MinRecords == 10
HighThreshold == 30
MaxDepth == 3
TestPercent == 20

High == "High Performer"
Needs == "Needs Improvement"
Features == { "Age", "GPA" }

\* np.where(df['gpa'] >= 3.0, 'High Performer', 'Needs Improvement')
Performance(gpa) == IF gpa >= HighThreshold THEN High ELSE Needs

FeatureValue(row, f) == IF f = "Age" THEN row.age ELSE row.gpa

\* train_test_split(test_size=0.2): ceil(0.2 * n) rows are held out.
TestSize(n) == (n * TestPercent + 99) \div 100

\* The held-out rows are the first TestSize(n) of a permutation drawn from a
\* generator seeded with 42.  The generator is not computed here: any set of
\* TestSize(n) row positions may be the held-out one.
TestSets(n) ==
    IF n < MinRecords THEN { {} }
    ELSE { T \in SUBSET (1..n) : Cardinality(T) = TestSize(n) }

\* DecisionTreeClassifier has no random_state: among the splits that are
\* equally good the one of the feature visited first wins, and the order of
\* the visit is drawn at random.
FeatureOrders == { <<"Age", "GPA">>, <<"GPA", "Age">> }

RECURSIVE Gcd(_, _)
Gcd(a, b) == IF b = 0 THEN a ELSE Gcd(b, a % b)

Lcm(a, b) == (a \div Gcd(a, b)) * b

RECURSIVE LcmUpTo(_)
LcmUpTo(n) == IF n <= 1 THEN 1 ELSE Lcm(LcmUpTo(n - 1), n)

\* Every impurity below is a multiple of 1/n for a node of n rows; scaled by
\* GiniScale it is an integer.
GiniScale == LcmUpTo(MaxMLRecords + 1)

CountOf(df, S, class) ==
    Cardinality({ i \in S : Performance(df[i].gpa) = class })

\* (number of rows of the node) * (its Gini impurity) * GiniScale
WeightedGini(df, S) ==
    IF S = {} THEN 0
    ELSE (2 * CountOf(df, S, High) * CountOf(df, S, Needs) * GiniScale)
            \div Cardinality(S)

LeftOf(df, S, f, t) == { i \in S : 2 * FeatureValue(df[i], f) <= t }

\* Twice the midpoints of neighbouring distinct values of feature f in the
\* node, in ascending order.
Thresholds(df, S, f) ==
    LET vals == { FeatureValue(df[i], f) : i \in S }
        mids == { a + b : <<a, b>> \in
                    { p \in vals \X vals :
                        p[1] < p[2] /\ ~\E v \in vals : p[1] < v /\ v < p[2] } }
    IN  SortedIds(mids)

Candidates(df, S, order) ==
    LET cs(f) == LET ts == Thresholds(df, S, f)
                 IN  [ k \in 1..Len(ts) |-> <<f, ts[k]>> ]
    IN  cs(order[1]) \o cs(order[2])

\* The criterion's proxy of the impurity improvement of a split, as the
\* fraction <<numerator, denominator>>.
Proxy(df, S, c) ==
    LET L == LeftOf(df, S, c[1], c[2])
        R == S \ L
        sq(T) == CountOf(df, T, High) * CountOf(df, T, High)
                    + CountOf(df, T, Needs) * CountOf(df, T, Needs)
    IN  << sq(L) * Cardinality(R) + sq(R) * Cardinality(L),
           Cardinality(L) * Cardinality(R) >>

Better(p, q) == p[1] * q[2] > q[1] * p[2]

\* The first candidate that no other candidate beats.
BestSplit(df, S, order) ==
    LET cs == Candidates(df, S, order)
        best == { k \in 1..Len(cs) :
                    \A j \in 1..Len(cs) :
                        ~Better(Proxy(df, S, cs[j]), Proxy(df, S, cs[k])) }
    IN  cs[CHOOSE k \in best : \A j \in best : k <= j]

\* argmax over the class counts, classes in sorted order.
LeafClass(df, S) ==
    IF CountOf(df, S, High) >= CountOf(df, S, Needs) THEN High ELSE Needs

\* A node: a leaf when the depth limit is reached, when fewer than two rows
\* are left, when the rows are of one class or when no feature has two
\* values among them; else split at the best candidate.
RECURSIVE BuildTree(_, _, _, _)
SplitNode(df, S, depth, order, c, L) ==
    << "node", c[1], c[2],
       BuildTree(df, L, depth + 1, order),
       BuildTree(df, S \ L, depth + 1, order),
       WeightedGini(df, S) - WeightedGini(df, L) - WeightedGini(df, S \ L) >>

SplitAt(df, S, depth, order, c) ==
    SplitNode(df, S, depth, order, c, LeftOf(df, S, c[1], c[2]))

BuildTree(df, S, depth, order) ==
    IF \/ depth >= MaxDepth
       \/ Cardinality(S) < 2
       \/ WeightedGini(df, S) = 0
       \/ Candidates(df, S, order) = <<>>
    THEN <<"leaf", LeafClass(df, S)>>
    ELSE SplitAt(df, S, depth, order, BestSplit(df, S, order))

\* model.fit(X_train, y_train)
Fit(df, train, order) == BuildTree(df, train, 0, order)

RECURSIVE Predict(_, _)
Predict(tree, row) ==
    IF tree[1] = "leaf" THEN tree[2]
    ELSE IF 2 * FeatureValue(row, tree[2]) <= tree[3]
         THEN Predict(tree[4], row)
         ELSE Predict(tree[5], row)

RECURSIVE Gain(_, _)
Gain(tree, f) ==
    IF tree[1] = "leaf" THEN 0
    ELSE (IF tree[2] = f THEN tree[6] ELSE 0)
            + Gain(tree[4], f) + Gain(tree[5], f)

RECURSIVE SplitCount(_)
SplitCount(tree) ==
    IF tree[1] = "leaf" THEN 0
    ELSE 1 + SplitCount(tree[4]) + SplitCount(tree[5])

\* num / den in lowest terms.
Fraction(num, den) ==
    [ num |-> num \div Gcd(num, den), den |-> den \div Gcd(num, den) ]

\* Variant of feature_importances: the gains left as they are, not divided
\* by their sum.
feature_importances_unnormalized(tree, n) ==
    [ f \in Features |-> Fraction(Gain(tree, f), n * GiniScale) ]

\* model.feature_importances_: each feature's gain over the n training rows,
\* divided by the sum of the gains when that sum is not zero.
NormalizedBy(tree, n, total) ==
    [ f \in Features |->
        IF total > 0
        THEN Fraction(Gain(tree, f), total)
        ELSE Fraction(Gain(tree, f), n * GiniScale) ]

feature_importances(tree, n) ==
    NormalizedBy(tree, n, Gain(tree, "Age") + Gain(tree, "GPA"))

\* df['predicted_performance'], accuracy_score over the held-out rows and
\* the feature importance of the fitted model.
Predicted(df, model) == [ i \in 1..Len(df) |-> Predict(model, df[i]) ]

Hits(df, test, predicted) ==
    Cardinality({ i \in test : predicted[i] = Performance(df[i].gpa) })

Scored(df, test, train, model, predicted) ==
    [ n |-> Len(df), train |-> train, test |-> test,
      accuracy |-> [ none |-> FALSE, num |-> Hits(df, test, predicted),
                     den |-> Cardinality(test) ],
      importance |-> [ none |-> FALSE,
                       weights |-> feature_importances(model, Cardinality(train)) ],
      predicted |-> predicted,
      splits |-> SplitCount(model) ]

FitAndScore(df, test, train, model) ==
    Scored(df, test, train, model, Predicted(df, model))

train_and_predict(df, test, order) ==
    IF Len(df) < MinRecords THEN NoPrediction(Len(df))
    ELSE FitAndScore(df, test, (1..Len(df)) \ test,
                     Fit(df, (1..Len(df)) \ test, order))

\* 'if accuracy:' is false for None and for 0.0.
Truthy(accuracy) == ~accuracy.none /\ accuracy.num # 0

\* choice == 'ML Recommendations'
MLResultShown(r) ==
    MLShown(IF Truthy(r.accuracy) THEN "result" ELSE "not_enough", r)

MLRecommendationsOn(df, test, order) ==
    /\ op' = "classify"
    /\ arg' = NoArg
    /\ out' = NoOut
    /\ UNCHANGED <<students, seq, created>>
    /\ test \in TestSets(Len(df))
    /\ IF df # <<>>
       THEN ml' = MLResultShown(train_and_predict(df, test, order))
       ELSE ml' = MLShown("add_students", NoPrediction(0))

MLRecommendationsPage(test, order) ==
    MLRecommendationsOn(view_students(students), test, order)

\* Tables of n records, n up to MaxMLRecords, as n Add Student submissions
\* leave them: ids 1..n, each record one of three.
MLRecord(age, gpa) ==
    [ name |-> <<"A","l">>, age |-> age, major |-> <<"C","S">>, gpa |-> gpa,
      email |-> SomeEmail ]

MLRecords == << MLRecord(MinAge, 20), MLRecord(MinAge + 1, 30), MLRecord(MinAge, MaxGpa) >>

InitML ==
    /\ \E n \in 0..MaxMLRecords : \E a \in 0..n : \E b \in 0..(n - a) :
          /\ students = [ i \in 1..n |->
                            IF i <= a THEN MLRecords[1]
                            ELSE IF i <= a + b THEN MLRecords[2]
                            ELSE MLRecords[3] ]
          /\ seq = n
          /\ created = 1..n
    /\ op = "start"
    /\ arg = NoArg
    /\ out = NoOut
    /\ ml = NoML

\* The page is opened once on each table: opening it again computes again
\* from the same table.
NextML ==
    /\ op = "start"
    /\ \E test \in TestSets(Cardinality(DOMAIN students)), order \in FeatureOrders :
          MLRecommendationsPage(test, order)

SpecML == InitML /\ [][NextML]_vars

(***************************************************************************)
(* Helpers of the properties.                                              *)
(***************************************************************************)
Fields(a) ==
    [ name |-> a.name, age |-> a.age, major |-> a.major, gpa |-> a.gpa,
      email |-> a.email ]

RowFields(r) == Fields(r)

RecordValid(r) == validate_inputs(r.name, r.age, r.gpa, r.email) = <<>>

RowIds(df) == { df[k].id : k \in 1..Len(df) }

RowOf(df, id) == df[CHOOSE k \in 1..Len(df) : df[k].id = id]

DistinctIds(df) == \A i, j \in 1..Len(df) : i # j => df[i].id # df[j].id

Succeeded(o) == o.status = "success"
Failed(o) == o.status \in { "validation_error", "not_found" }

\* txt contains sub, ASCII letters compared without regard to case.
Contains(sub, txt) ==
    \E i \in 1..(Len(txt) - Len(sub) + 1) :
        \A k \in 1..Len(sub) : Lower(txt[i + k - 1]) = Lower(sub[k])

\* The character classes of an e-mail's local part and domain as the
\* specification words them.
StatedLocal == Letters \cup Digits \cup { ".", "_", "%", "+", "-" }
StatedDomain == Letters \cup Digits \cup { ".", "-" }

HasMessage(o, msg) == \E k \in 1..Len(o.errors) : o.errors[k] = msg

CountMessage(o, msg) == Cardinality({ k \in 1..Len(o.errors) : o.errors[k] = msg })

\* Length of s between its first and its last character that is no whitespace.
TrimmedLen(s) ==
    LET solid == { k \in 1..Len(s) : s[k] \notin Whitespace }
    IN  IF solid = {} THEN 0
        ELSE (CHOOSE k \in solid : \A j \in solid : j <= k)
             - (CHOOSE k \in solid : \A j \in solid : k <= j) + 1

\* The returned weights and accuracy, read off the ML page's last run.
Weight(f) == ml.importance.weights[f]

WeightsSumToOne ==
    /\ Weight("Age").den > 0
    /\ Weight("GPA").den > 0
    /\ Weight("Age").num * Weight("GPA").den + Weight("GPA").num * Weight("Age").den
          = Weight("Age").den * Weight("GPA").den

TwoWeightsAndAccuracy ==
    /\ ~ml.importance.none
    /\ DOMAIN ml.importance.weights = { "Age", "GPA" }
    /\ \A f \in { "Age", "GPA" } : Weight(f).num >= 0 /\ Weight(f).den > 0
    /\ ~ml.accuracy.none
    /\ ml.accuracy.den > 0
    /\ 0 <= ml.accuracy.num
    /\ ml.accuracy.num <= ml.accuracy.den

OneLabelInTraining ==
    \E class \in { High, Needs } :
        \A i \in ml.train : Performance(view_students(students)[i].gpa) = class

(***************************************************************************)
(* C1: every step leaves in the table only records for which               *)
(* validate_inputs returns no message, and a step of the Add or Update     *)
(* page that changes the table was given inputs that validate_inputs       *)
(* accepts and wrote exactly those inputs.                                 *)
(***************************************************************************)
C1_ValidatedWrites ==
    [][ /\ \A id \in DOMAIN students' : RecordValid(students'[id])
        /\ (students' # students /\ op' \in { "add", "update" }) =>
              /\ validate_inputs(arg'.name, arg'.age, arg'.gpa, arg'.email) = <<>>
              /\ out'.id \in DOMAIN students'
              /\ students'[out'.id] = Fields(arg')
              /\ \A id \in DOMAIN students' \ {out'.id} :
                    id \in DOMAIN students /\ students'[id] = students[id]
      ]_vars

\* C1: an update has succeeded on a table of two or more records.
C1_Witness ==
    /\ op = "update"
    /\ Succeeded(out)
    /\ Cardinality(DOMAIN students) >= 2
    /\ \A id \in DOMAIN students : RecordValid(students[id])

(***************************************************************************)
(* C2: an id assigned by a create was never assigned before, not even to   *)
(* a record since deleted; the rows of the table have pairwise distinct    *)
(* ids; an update leaves the set of ids as it was.                         *)
(***************************************************************************)
C2_IdsNeverReused ==
    [][ /\ (op' = "add" /\ Succeeded(out')) =>
              /\ out'.id \notin created
              /\ out'.id \notin DOMAIN students
              /\ DOMAIN students' = DOMAIN students \cup {out'.id}
              /\ created' = created \cup {out'.id}
        /\ DistinctIds(view_students(students'))
        /\ (op' = "update" /\ Succeeded(out')) =>
              /\ DOMAIN students' = DOMAIN students
              /\ RowIds(view_students(students')) = RowIds(view_students(students))
      ]_vars

\* C2: a create has succeeded after a record with a smaller id was deleted.
C2_Witness ==
    /\ op = "add"
    /\ Succeeded(out)
    /\ \E id \in created : id \notin DOMAIN students /\ id < out.id

(***************************************************************************)
(* C3: the Update and Delete pages given an id that no record has show     *)
(* not-found, never success; a delete that succeeded, followed at once by  *)
(* a delete of the same id, shows not-found.                               *)
(***************************************************************************)
C3_AbsentIdNotFound ==
    [][ /\ (op' \in { "update", "delete" } /\ arg'.id \notin DOMAIN students)
              => out'.status = "not_found"
        /\ (op = "delete" /\ Succeeded(out) /\ op' = "delete" /\ arg'.id = arg.id)
              => out'.status = "not_found"
      ]_vars

\* C3: a delete of an id that was once created, and is gone, has shown not-found.
C3_Witness ==
    /\ op = "delete"
    /\ out.status = "not_found"
    /\ arg.id \in created

(***************************************************************************)
(* C4: a step of the Add, Update or Delete page that ends in a validation  *)
(* error or in not-found leaves the table and its id counter as they were. *)
(***************************************************************************)
C4_ErrorsChangeNothing ==
    [][ (op' \in { "add", "update", "delete" } /\ Failed(out'))
            => (students' = students /\ seq' = seq /\ created' = created)
      ]_vars

\* C4: an update of an existing record with other, invalid values has been refused.
C4_Witness ==
    /\ op = "update"
    /\ out.status = "validation_error"
    /\ arg.id \in DOMAIN students
    /\ Fields(arg) # students[arg.id]

(***************************************************************************)
(* C5: after a successful create the listing holds the old rows and one    *)
(* new row with the input's fields; after a successful update the row of   *)
(* that id holds the new fields and every other row is as before; after a  *)
(* successful delete neither the listing nor any search returns the id,    *)
(* and every other row is as before.                                       *)
(***************************************************************************)
C5_RoundTrip ==
    [][ LET old == view_students(students)
            new == view_students(students')
            others == { id \in RowIds(old) : id # arg'.id }
        IN  /\ (op' = "add" /\ Succeeded(out')) =>
                  /\ Len(new) = Len(old) + 1
                  /\ RowIds(new) = RowIds(old) \cup {out'.id}
                  /\ out'.id \notin RowIds(old)
                  /\ RowFields(RowOf(new, out'.id)) = Fields(arg')
                  /\ \A id \in RowIds(old) : RowOf(new, id) = RowOf(old, id)
            /\ (op' = "update" /\ Succeeded(out')) =>
                  /\ RowIds(new) = RowIds(old)
                  /\ RowFields(RowOf(new, arg'.id)) = Fields(arg')
                  /\ \A id \in others : RowOf(new, id) = RowOf(old, id)
            /\ (op' = "delete" /\ Succeeded(out')) =>
                  /\ RowIds(new) = others
                  /\ \A q \in Queries :
                        arg'.id \notin RowIds(search_students(students', q))
                  /\ \A id \in others : RowOf(new, id) = RowOf(old, id)
      ]_vars

\* C5: an update has succeeded while another record holds different values.
C5_Witness ==
    /\ op = "update"
    /\ Succeeded(out)
    /\ \E id \in DOMAIN students : students[id] # students[arg.id]

(***************************************************************************)
(* C7: a search returns exactly the rows whose name or major contains the  *)
(* query (ASCII case ignored), also for a query holding % or _, and the    *)
(* empty query returns every row.                                          *)
(***************************************************************************)
C7_SearchIsSubstring ==
    /\ (op = "search" /\ arg.query # <<>>) =>
          RowIds(out.rows) =
              { id \in DOMAIN students :
                    \/ Contains(arg.query, students[id].name)
                    \/ Contains(arg.query, students[id].major) }
    /\ search_students(students, <<>>) = view_students(students)

(***************************************************************************)
(* C8: validate_inputs reports the e-mail message exactly for the e-mails  *)
(* that are not local@domain.tld with local of letters, digits and . _ % + *)
(* -, domain of letters, digits and . -, and a last segment of two or more *)
(* letters.                                                                *)
(***************************************************************************)
C8_EmailMessageExact ==
    op = "validate" =>
        (HasMessage(out, EmailError)
            <=> ~PatternMatches(arg.email, StatedLocal, StatedDomain))

(***************************************************************************)
(* C9: validate_inputs returns the name message iff the name trimmed of    *)
(* surrounding whitespace has fewer than 2 characters, the age message iff *)
(* the age is below 18 or above 100, the GPA message iff the GPA is below  *)
(* 0.0 or above 4.0, each at most once and each whatever the other rules   *)
(* say.                                                                    *)
(***************************************************************************)
C9_EveryRuleReported ==
    op = "validate" =>
        /\ HasMessage(out, NameError) <=> TrimmedLen(arg.name) < 2
        /\ HasMessage(out, AgeError) <=> (arg.age < 18 \/ arg.age > 100)
        /\ HasMessage(out, GpaError) <=> (arg.gpa < 0 \/ arg.gpa > 40)
        /\ \A msg \in { NameError, AgeError, GpaError, EmailError } :
              CountMessage(out, msg) <= 1

\* C9: one call has returned the name, age and GPA messages together.
C9_Witness ==
    /\ op = "validate"
    /\ arg.age = 101
    /\ arg.gpa = 41
    /\ TrimmedLen(arg.name) = 1
    /\ HasMessage(out, NameError)
    /\ HasMessage(out, AgeError)
    /\ HasMessage(out, GpaError)

(***************************************************************************)
(* C6: the ML page on fewer than 10 records shows an insufficient-data     *)
(* message and produces no prediction; on 10 or more records it shows the  *)
(* prediction result, whatever accuracy the evaluation gave.               *)
(***************************************************************************)
C6_ResultFromTenRecords ==
    op = "classify" =>
        /\ ml.n < 10 =>
              /\ ml.shown \in { "add_students", "not_enough" }
              /\ ml.predicted = <<>>
              /\ ml.accuracy.none
        /\ ml.n >= 10 =>
              /\ ml.shown = "result"
              /\ Len(ml.predicted) = ml.n

====
